---- MODULE Spec2Model ----
(***************************************************************************)
(* Ubuntu-Planner: the active-session lifecycle (SessionService) and the   *)
(* notification worker (NotificationWorker) with its de-duplication cache. *)
(*                                                                         *)
(* Time is counted in units of 1/Resolution minute.  A python float number *)
(* of minutes m is represented by the integer m * Resolution, so           *)
(* "m < 1" is "units < Resolution" and int(m) is "units \div Resolution".  *)
(***************************************************************************)
EXTENDS Integers, Sequences, FiniteSets, TLC

\* ---------------------------------------------------------------- bounds
Resolution == 2        \* time units per minute
MaxTime == 13          \* last instant of the clock under Spec, in units
MaxServiceTime == 3    \* last instant of the clock under SpecService and SpecRace
MaxSessions == 2       \* rows the sessions table may hold under SpecService and SpecRace
MaxWorkerSessions == 1 \* rows the sessions table may hold under Spec
MaxPlanned == 2        \* cap on planned_duration (minutes)
MaxDeficit == 1        \* how far below zero planned_duration may go under SpecValidation
MaxNotes == 2          \* notes a session may collect under SpecNotes
MaxBannerMinutes == 66 \* last minute of the clock under SpecBanner
MaxSettingsTime == 6   \* last instant of the clock under SpecIntervals and SpecEnabled
SlotsPerDay == 3       \* instants a day has under SpecPlanning
MaxSlot == 3           \* last instant of the planning calendar under SpecPlanning
MaxPlanId == 2         \* last id the planning table hands out under SpecPlanning
MaxLoopTime == 4       \* last instant of the clock under SpecLoop

\* ------------------------------------------------------ program constants
NULL == -1
DedupSeconds == 60
LookbackMinutes == 5
DefaultInterval == 10
CheckIntervalSeconds == 60

Units(seconds) == (seconds * Resolution) \div 60

\* ------------------------------------------------------------ input sets
PlanIds == {1}
ProjectIds == {1}
PlanStarts == {1}
Priorities == {"medium", "critical"}
IntervalChoices == {NULL, 2}
SettingChoices == {NULL}
SettingUpdates == {2}
PlannedChoices == {1}
SessionIds == 1..(MaxSessions + 1)
RequestIds == {1, 2}
LoopIds == {1, 2}
LoopPlanIds == {1, 2}
Kinds == {"planning_start", "session_end", "session_reminder"}
\* what the start dialog sends as <<project_id, planning_id>>:
\* no project, a project, a planning entry together with its project
StartModes == {<<NULL, NULL>>, <<1, NULL>>, <<1, 1>>}
DurationInputs == {-1, 0, 1}
MinuteInputs == {-1, 0, 1}
BannerPlanned == {2, 60}
NoteTexts == {<<>>, <<"a">>}
ReviewKeys == {"satisfaction_score", "tasks_done", "notes", "tag_ids"}
\* the key sets of the review dicts tried: empty, partial ones, the whole form
ReviewKeySets == {{}, {"notes"}, {"satisfaction_score", "tasks_done"}, ReviewKeys}

Keys == ({"planning"} \X PlanIds) \cup ({"session"} \X SessionIds)
LoopKeys == ({"planning"} \X LoopPlanIds) \cup ({"session"} \X SessionIds)

Slots == 0..MaxSlot
ErrSameDay == "Planning must be within the same day"
ErrOverlap == "Planning overlaps with existing planning"
ErrPlanNotFound == "Planning not found"
ErrActive == "Another session is already active"
ErrNotFound == "Session not found"
ErrStopped == "Session already stopped"

VARIABLES
    now,            \* the clock, datetime.now()
    sessions,       \* the sessions table: sequence of rows, id = index
    planning,       \* the planning table: PlanIds -> row
    project_interval, \* projects.notification_interval: ProjectIds -> minutes or NULL
    setting_default,  \* settings row notification_interval_default, or NULL when absent
    cache,          \* NotificationWorker._notification_cache: Keys -> time or NULL
    running,        \* NotificationWorker.running
    req,            \* start requests in flight: RequestIds -> position and payload
    op,             \* the operation the last step ran
    response,       \* HTTP response of the last API call
    out,            \* calls made to notification_service.send_notification by the last step
    attempted,      \* keys for which the last step reached the de-duplication check
    lastCall,       \* the dispatch port's record: time of its last call per key, or NULL
    windowTick,     \* PlanIds -> a tick ran inside the lookback window with no session at all
    notified,       \* PlanIds -> some planning notification was dispatched for the entry
    resumed,        \* the active session's notifications were re-enabled since the last tick
    arg,            \* the arguments of the last API call
    toggleBefore,   \* rows as they were before each toggle of the current run of toggles
    view,           \* what the banner last computed from the store's getters
    loops,          \* the tasks running NotificationWorker.start: position and wake-up time
    current,        \* the task the event loop is executing, or NULL
    delivery,       \* the send_notification calls of the tick in progress, with their outcome
    raised,         \* LoopIds -> what the loop's last check raised: "no", "db" or "send"
    plan_store,     \* the planning table as PlanningService keeps it, and the next id
    store,          \* the frontend session store and its requests in flight
    enabled         \* settings notification_{kind}_enabled

vars == <<now, sessions, planning, project_interval, setting_default, cache, running, req,
          op, response, out, attempted, lastCall, windowTick, notified, resumed,
          arg, toggleBefore, view,
          loops, current, delivery, raised, plan_store, store, enabled>>

\* state the session API, the atomic tick and the clock never touch
laterVars == <<loops, current, delivery, raised, plan_store, store, enabled>>

\* what the worker and the observer hold; the API handlers leave it alone
workerVars == <<cache, running, lastCall, windowTick, notified>>
tables == <<planning, project_interval, setting_default>>

NoResponse == [status |-> 0, detail |-> ""]

\* an optional python string: None, or a sequence of characters
NoneStr == [null |-> TRUE, chars |-> <<>>]
Str(chars) == [null |-> FALSE, chars |-> chars]
\* "if s:" on an optional string: None and "" are false
StrTruthy(s) == ~s.null /\ s.chars # <<>>

\* review_data of stop_session: None, or a dict holding the keys that were set
NoReview == [given |-> FALSE, keys |-> {}, satisfaction_score |-> NULL,
             tasks_done |-> NoneStr, notes |-> NoneStr, tag_ids |-> {}]
ReviewDict(keys) == [given |-> TRUE, keys |-> keys, satisfaction_score |-> 80,
                     tasks_done |-> Str(<<"d">>), notes |-> Str(<<"r">>), tag_ids |-> {1}]
Reviews == {NoReview} \cup {ReviewDict(keys) : keys \in ReviewKeySets}

NoArg == [id |-> NULL, minutes |-> 0, note |-> <<>>, review |-> NoReview]
NoLoop == [pc |-> "none", wake |-> 0, stopped |-> FALSE]
NoFetch == [pc |-> "idle", data |-> NULL]
EmptyStore == [activeSession |-> NULL, pollInterval |-> FALSE, fetch |-> NoFetch,
               stopping |-> "none", stopResolved |-> FALSE]
NoView == [elapsedMinutes |-> 0, remainingMinutes |-> 0, isOvertime |-> FALSE,
           overtimeMinutes |-> 0]

\* ------------------------------------------------------- SessionService
ActiveIdsAll(ss) == 1..Len(ss)

\* filter(Session.end_time.is_(None))
ActiveIds(ss) == {i \in 1..Len(ss) : ss[i].end_time = NULL}

Min(S) == CHOOSE x \in S : \A y \in S : x <= y

\* get_active_session: query(...).filter(end_time IS NULL).first(); id or NULL
GetActiveSessionNone(ss) == NULL
GetActiveSession(ss) == IF ActiveIds(ss) = {} THEN NULL ELSE Min(ActiveIds(ss))

\* get_by_id
GetById(ss, id) == IF id \in 1..Len(ss) THEN id ELSE NULL

\* Session(**session_data) with start_time = datetime.now()
NewSession(id, project_id, planned_duration, planning_id, t) ==
    [id |-> id, project_id |-> project_id, planning_id |-> planning_id,
     start_time |-> t, end_time |-> NULL, planned_duration |-> planned_duration,
     notification_disabled |-> FALSE,
     notes |-> NoneStr, satisfaction_score |-> NULL, tasks_done |-> NoneStr, tags |-> {}]

\* what an API handler's step leaves behind for the worker's observers
ApiStep(name) ==
    /\ op' = name
    /\ out' = {} /\ attempted' = {}
    /\ UNCHANGED <<now, tables, workerVars, req, view, laterVars>>

StartSessionOverwrite(limit, project_id, planned_duration, planning_id) ==
    /\ Len(sessions) < limit
    /\ sessions' = Append([i \in 1..Len(sessions) |->
                             IF sessions[i].end_time = NULL
                             THEN [sessions[i] EXCEPT !.end_time = now] ELSE sessions[i]],
                          NewSession(Len(sessions) + 1, project_id, planned_duration,
                                     planning_id, now))
    /\ response' = [status |-> 201, detail |-> "created"]
    /\ resumed' = FALSE
    /\ arg' = NoArg /\ toggleBefore' = <<>>
    /\ ApiStep("start")

\* POST /api/sessions/ -> SessionService.start_session, one request at a time
StartSession(limit, project_id, planned_duration, planning_id) ==
    /\ IF GetActiveSession(sessions) # NULL
       THEN /\ response' = [status |-> 400, detail |-> ErrActive]
            /\ UNCHANGED <<sessions, resumed>>
       ELSE /\ Len(sessions) < limit
            /\ sessions' = Append(sessions,
                   NewSession(Len(sessions) + 1, project_id, planned_duration, planning_id, now))
            /\ response' = [status |-> 201, detail |-> "created"]
            /\ resumed' = FALSE
    /\ arg' = NoArg /\ toggleBefore' = <<>>
    /\ ApiStep("start")

ApplyReviewAllFields(s, review_data) ==
    [s EXCEPT !.satisfaction_score = review_data.satisfaction_score,
              !.tasks_done = review_data.tasks_done,
              !.notes = review_data.notes,
              !.tags = review_data.tag_ids]

\* "if review_data:" and the loop over review_data.items(): setattr for every
\* key the dict holds, session.tags for tag_ids
ApplyReview(s, review_data) ==
    IF review_data.given /\ review_data.keys # {}
    THEN [s EXCEPT
            !.satisfaction_score = IF "satisfaction_score" \in review_data.keys
                                   THEN review_data.satisfaction_score ELSE @,
            !.tasks_done = IF "tasks_done" \in review_data.keys
                           THEN review_data.tasks_done ELSE @,
            !.notes = IF "notes" \in review_data.keys THEN review_data.notes ELSE @,
            !.tags = IF "tag_ids" \in review_data.keys THEN review_data.tag_ids ELSE @]
    ELSE s

StopSessionAgain(id, review_data) ==
    /\ IF GetById(sessions, id) = NULL
       THEN /\ response' = [status |-> 400, detail |-> ErrNotFound]
            /\ UNCHANGED sessions
       ELSE /\ sessions' = [sessions EXCEPT
                   ![id] = ApplyReview([@ EXCEPT !.end_time = now], review_data)]
            /\ response' = [status |-> 200, detail |-> "stopped"]
    /\ resumed' = (resumed /\ ActiveIds(sessions') # {})
    /\ arg' = [NoArg EXCEPT !.id = id, !.review = review_data]
    /\ toggleBefore' = <<>>
    /\ ApiStep("stop")

\* POST /api/sessions/{id}/stop -> SessionService.stop_session
StopSession(id, review_data) ==
    /\ IF GetById(sessions, id) = NULL
       THEN /\ response' = [status |-> 400, detail |-> ErrNotFound]
            /\ UNCHANGED sessions
       ELSE IF sessions[id].end_time # NULL
       THEN /\ response' = [status |-> 400, detail |-> ErrStopped]
            /\ UNCHANGED sessions
       ELSE /\ sessions' = [sessions EXCEPT
                   ![id] = ApplyReview([@ EXCEPT !.end_time = now], review_data)]
            /\ response' = [status |-> 200, detail |-> "stopped"]
    /\ resumed' = (resumed /\ ActiveIds(sessions') # {})
    /\ arg' = [NoArg EXCEPT !.id = id, !.review = review_data]
    /\ toggleBefore' = <<>>
    /\ ApiStep("stop")

\* datetime.now().strftime("%H:%M"): the clock starts at midnight
Digit(n) == <<"0", "1", "2", "3", "4", "5", "6", "7", "8", "9">>[n + 1]
Timestamp(t) ==
    LET minute == (t \div Resolution) % 1440
        hh == minute \div 60
        mm == minute % 60
    IN <<Digit(hh \div 10), Digit(hh % 10), ":", Digit(mm \div 10), Digit(mm % 10)>>

\* new_note = f"[{timestamp}] {note}"
NewNote(t, note) == <<"[">> \o Timestamp(t) \o <<"]", " ">> \o note

AppendNoteReplacing(notes, new_note) == Str(new_note)

\* session.notes += f"\n{new_note}" when notes is non-empty, else notes = new_note
AppendNote(notes, new_note) ==
    IF StrTruthy(notes) THEN Str(notes.chars \o <<"\n">> \o new_note)
    ELSE Str(new_note)

\* how many entries the notes hold
NoteCount(notes) == Cardinality({i \in 1..Len(notes.chars) : notes.chars[i] = "["})

\* POST /api/sessions/{id}/add-note -> SessionService.add_note
AddNote(id, note) ==
    /\ IF GetById(sessions, id) = NULL
       THEN /\ response' = [status |-> 400, detail |-> ErrNotFound]
            /\ UNCHANGED sessions
       ELSE /\ NoteCount(sessions[id].notes) < MaxNotes
            /\ sessions' = [sessions EXCEPT
                   ![id].notes = AppendNote(sessions[id].notes, NewNote(now, note))]
            /\ response' = [status |-> 200, detail |-> "note added"]
    /\ arg' = [NoArg EXCEPT !.id = id, !.note = note]
    /\ toggleBefore' = <<>>
    /\ UNCHANGED resumed
    /\ ApiStep("add_note")

AddTimeReopening(id, minutes) ==
    /\ IF GetById(sessions, id) = NULL
       THEN /\ response' = [status |-> 400, detail |-> ErrNotFound]
            /\ UNCHANGED sessions
       ELSE /\ sessions[id].planned_duration + minutes <= MaxPlanned
            /\ sessions[id].planned_duration + minutes >= -MaxDeficit
            /\ sessions' = [sessions EXCEPT
                   ![id].planned_duration = sessions[id].planned_duration + minutes,
                   ![id].end_time = NULL]
            /\ response' = [status |-> 200, detail |-> "time added"]
    /\ arg' = [NoArg EXCEPT !.id = id, !.minutes = minutes]
    /\ toggleBefore' = <<>>
    /\ UNCHANGED resumed
    /\ ApiStep("add_time")

\* POST /api/sessions/{id}/add-time -> SessionService.add_time
AddTime(id, minutes) ==
    /\ IF GetById(sessions, id) = NULL
       THEN /\ response' = [status |-> 400, detail |-> ErrNotFound]
            /\ UNCHANGED sessions
       ELSE /\ sessions[id].planned_duration + minutes <= MaxPlanned
            /\ sessions[id].planned_duration + minutes >= -MaxDeficit
            /\ sessions' = [sessions EXCEPT
                   ![id].planned_duration = sessions[id].planned_duration + minutes]
            /\ response' = [status |-> 200, detail |-> "time added"]
    /\ arg' = [NoArg EXCEPT !.id = id, !.minutes = minutes]
    /\ toggleBefore' = <<>>
    /\ UNCHANGED resumed
    /\ ApiStep("add_time")

ToggleNotificationsDisableOnly(id) ==
    /\ IF GetById(sessions, id) = NULL
       THEN /\ response' = [status |-> 400, detail |-> ErrNotFound]
            /\ toggleBefore' = <<>>
            /\ UNCHANGED <<sessions, resumed>>
       ELSE /\ sessions' = [sessions EXCEPT ![id].notification_disabled = TRUE]
            /\ response' = [status |-> 200, detail |-> "toggled"]
            /\ resumed' = resumed
            /\ toggleBefore' = IF Len(toggleBefore) = 1 /\ toggleBefore[1].id = id
                               THEN <<toggleBefore[1], sessions[id]>>
                               ELSE <<sessions[id]>>
    /\ arg' = [NoArg EXCEPT !.id = id]
    /\ ApiStep("toggle")

\* POST /api/sessions/{id}/toggle-notifications -> SessionService.toggle_notifications
ToggleNotifications(id) ==
    /\ IF GetById(sessions, id) = NULL
       THEN /\ response' = [status |-> 400, detail |-> ErrNotFound]
            /\ toggleBefore' = <<>>
            /\ UNCHANGED <<sessions, resumed>>
       ELSE /\ sessions' = [sessions EXCEPT
                   ![id].notification_disabled = ~sessions[id].notification_disabled]
            /\ response' = [status |-> 200, detail |-> "toggled"]
            /\ resumed' = IF sessions[id].end_time = NULL
                          THEN sessions[id].notification_disabled ELSE resumed
            /\ toggleBefore' = IF Len(toggleBefore) = 1 /\ toggleBefore[1].id = id
                               THEN <<toggleBefore[1], sessions[id]>>
                               ELSE <<sessions[id]>>
    /\ arg' = [NoArg EXCEPT !.id = id]
    /\ ApiStep("toggle")

\* start_session in two steps, as two requests in flight run it:
\* the read of the active session (lines 39-45) ...
StartCheck(r, project_id, planned_duration, planning_id) ==
    /\ req[r].pc = "idle"
    /\ IF GetActiveSession(sessions) # NULL
       THEN /\ response' = [status |-> 400, detail |-> ErrActive]
            /\ UNCHANGED req
       ELSE /\ req' = [req EXCEPT ![r] = [pc |-> "checked", project_id |-> project_id,
                          planned_duration |-> planned_duration,
                          planning_id |-> planning_id, start_time |-> now]]
            /\ response' = NoResponse
    /\ op' = "start_check"
    /\ out' = {} /\ attempted' = {}
    /\ arg' = NoArg /\ toggleBefore' = <<>>
    /\ UNCHANGED <<now, sessions, tables, workerVars, resumed, view, laterVars>>

\* ... and the insert and commit (lines 50-60)
StartCommit(r) ==
    /\ req[r].pc = "checked"
    /\ Len(sessions) < MaxSessions
    /\ sessions' = Append(sessions,
           NewSession(Len(sessions) + 1, req[r].project_id, req[r].planned_duration,
                      req[r].planning_id, req[r].start_time))
    /\ req' = [req EXCEPT ![r] = [pc |-> "idle"]]
    /\ response' = [status |-> 201, detail |-> "created"]
    /\ op' = "start_commit"
    /\ out' = {} /\ attempted' = {}
    /\ arg' = NoArg /\ toggleBefore' = <<>>
    /\ UNCHANGED <<now, tables, workerVars, resumed, view, laterVars>>

\* add_note of request r up to the read of the row: get_by_id, the not-found
\* error, and new_note built from the clock ...
AddNoteRead(r, id, note) ==
    /\ req[r].pc = "idle"
    /\ IF GetById(sessions, id) = NULL
       THEN /\ response' = [status |-> 400, detail |-> ErrNotFound]
            /\ UNCHANGED req
       ELSE /\ req' = [req EXCEPT ![r] = [pc |-> "read", id |-> id,
                          notes |-> sessions[id].notes,
                          new_note |-> NewNote(now, note)]]
            /\ response' = NoResponse
    /\ op' = "add_note_read"
    /\ out' = {} /\ attempted' = {}
    /\ arg' = [NoArg EXCEPT !.id = id, !.note = note] /\ toggleBefore' = <<>>
    /\ UNCHANGED <<now, sessions, tables, workerVars, resumed, view, laterVars>>

\* ... and the assignment of the notes it read plus new_note, and the commit
AddNoteWrite(r) ==
    /\ req[r].pc = "read"
    /\ sessions' = [sessions EXCEPT
           ![req[r].id].notes = AppendNote(req[r].notes, req[r].new_note)]
    /\ req' = [req EXCEPT ![r].pc = "done"]
    /\ response' = [status |-> 200, detail |-> "note added"]
    /\ op' = "add_note_write"
    /\ out' = {} /\ attempted' = {}
    /\ arg' = NoArg /\ toggleBefore' = <<>>
    /\ UNCHANGED <<now, tables, workerVars, resumed, view, laterVars>>

\* ---------------------------------------------------- de-duplication cache
WasNotificationSentRecentlyInclusive(c, key, t) ==
    IF c[key] = NULL THEN FALSE ELSE t - c[key] <= Units(DedupSeconds)

\* _was_notification_sent_recently
WasNotificationSentRecently(c, key, t) ==
    IF c[key] = NULL THEN FALSE ELSE t - c[key] < Units(DedupSeconds)

\* _mark_notification_sent for every key of a set
MarkNotificationSent(c, keys, t) == [k \in DOMAIN c |-> IF k \in keys THEN t ELSE c[k]]

\* ------------------------------------------- _check_planning_notifications
InWindowLookahead(plan, t) ==
    /\ plan.scheduled_start >= t - LookbackMinutes * Resolution
    /\ plan.scheduled_start <= t + LookbackMinutes * Resolution

\* the window query: scheduled_start >= now - 5 minutes and scheduled_start <= now
InWindow(plan, t) ==
    /\ plan.scheduled_start >= t - LookbackMinutes * Resolution
    /\ plan.scheduled_start <= t

SessionFromPlanActiveOnly(ss, p) ==
    \E i \in 1..Len(ss) : ss[i].planning_id = p /\ ss[i].end_time = NULL

\* session_from_plan: a session row with planning_id = plan.id exists
SessionFromPlan(ss, p) == \E i \in 1..Len(ss) : ss[i].planning_id = p

\* any_recent_session: start_time >= plan.scheduled_start and end_time IS NULL
AnyRecentSession(ss, plan) ==
    \E i \in 1..Len(ss) :
        ss[i].start_time >= plan.scheduled_start /\ ss[i].end_time = NULL

\* a python value used as a condition: None and 0 are false
Truthy(v) == v # NULL /\ v # 0

\* interval = 10, or plan.project.notification_interval when set
PlanningInterval(plan, pi) ==
    IF plan.project_id # NULL /\ Truthy(pi[plan.project_id])
    THEN pi[plan.project_id] ELSE DefaultInterval

\* should_notify of the planning check; elapsed in units
PlanningShouldNotify(elapsed, interval) ==
    IF elapsed < Resolution THEN TRUE
    ELSE (elapsed \div Resolution) % interval = 0

PlanningUrgencyNormal(plan) == "normal"

\* urgency of _send_planning_notification
PlanningUrgency(plan) == IF plan.priority = "critical" THEN "critical" ELSE "normal"

\* _send_planning_notification: the call to notification_service.send_notification
PlanningNotification(p, plan, elapsed) ==
    [kind |-> "planning", id |-> p,
     title |-> IF elapsed < Resolution THEN "Scheduled Work" ELSE "Planning Reminder",
     minutes |-> elapsed \div Resolution,
     urgency |-> PlanningUrgency(plan)]

\* entries that reach "if should_notify:" at a tick at time t
PlanningAttempts(ss, pl, pi, t) ==
    {p \in DOMAIN pl :
        /\ InWindow(pl[p], t)
        /\ ~SessionFromPlan(ss, p)
        /\ ~AnyRecentSession(ss, pl[p])
        /\ PlanningShouldNotify(t - pl[p].scheduled_start, PlanningInterval(pl[p], pi))}

\* ------------------------------------------- _check_session_notifications
\* interval: project's, else the settings row, else 10
SessionInterval(s, pi, sd) ==
    IF s.project_id # NULL /\ Truthy(pi[s.project_id]) THEN pi[s.project_id]
    ELSE IF sd # NULL THEN sd
    ELSE DefaultInterval

SessionShouldNotifyAlways(overtime, interval) == TRUE

\* should_notify of the session check; overtime in units
SessionShouldNotify(overtime, interval) ==
    IF overtime < Resolution THEN TRUE
    ELSE (overtime \div Resolution) % interval = 0

SessionSkippedIgnoringFlag(ss) == GetActiveSession(ss) = NULL

\* the early returns on the active session: none, or notification_disabled
SessionSkipped(ss) ==
    \/ GetActiveSession(ss) = NULL
    \/ ss[GetActiveSession(ss)].notification_disabled

\* _send_session_notification: the call to notification_service.send_notification
SessionNotification(s, overtime) ==
    [kind |-> "session", id |-> s.id,
     title |-> IF overtime < Resolution THEN "Session Complete" ELSE "Still Working",
     minutes |-> overtime \div Resolution,
     urgency |-> "normal"]

SessionAttemptsNoPlannedCheck(ss, pi, sd, t) ==
    IF SessionSkipped(ss) THEN {}
    ELSE LET s == ss[GetActiveSession(ss)]
             overtime == (t - s.start_time) - s.planned_duration * Resolution
         IN IF SessionShouldNotify(overtime, SessionInterval(s, pi, sd))
            THEN {s.id} ELSE {}

\* the active session's id when the tick reaches "if should_notify:", else nothing
SessionAttempts(ss, pi, sd, t) ==
    IF SessionSkipped(ss) THEN {}
    ELSE LET s == ss[GetActiveSession(ss)]
             elapsed == t - s.start_time
             overtime == elapsed - s.planned_duration * Resolution
         IN IF elapsed < s.planned_duration * Resolution THEN {}
            ELSE IF SessionShouldNotify(overtime, SessionInterval(s, pi, sd))
                 THEN {s.id} ELSE {}

\* ------------------------------------------------------ NotificationWorker
\* check_notifications: the planning check, then the session check
CheckNotifications ==
    LET pa == PlanningAttempts(sessions, planning, project_interval, now)
        sa == SessionAttempts(sessions, project_interval, setting_default, now)
        ps == {p \in pa : ~WasNotificationSentRecently(cache, <<"planning", p>>, now)}
        sn == {i \in sa : ~WasNotificationSentRecently(cache, <<"session", i>>, now)}
        sentKeys == ({"planning"} \X ps) \cup ({"session"} \X sn)
    IN /\ attempted' = ({"planning"} \X pa) \cup ({"session"} \X sa)
       /\ out' = {PlanningNotification(p, planning[p], now - planning[p].scheduled_start)
                     : p \in ps}
                 \cup {SessionNotification(sessions[i],
                          now - sessions[i].start_time
                              - sessions[i].planned_duration * Resolution) : i \in sn}
       /\ cache' = MarkNotificationSent(cache, sentKeys, now)

\* bookkeeping of what the dispatch port and the observer have seen
Observe ==
    /\ lastCall' = [k \in Keys |->
                      IF \E n \in out' : <<n.kind, n.id>> = k THEN now ELSE lastCall[k]]
    /\ notified' = [p \in PlanIds |->
                      notified[p] \/ \E n \in out' : n.kind = "planning" /\ n.id = p]
    /\ windowTick' = [p \in PlanIds |->
                      \/ windowTick[p]
                      \/ /\ Len(sessions) = 0
                         /\ planning[p].scheduled_start <= now
                         /\ now <= planning[p].scheduled_start + 5 * Resolution]
    /\ resumed' = FALSE

\* NotificationWorker.start: sets running and runs the first tick before its first sleep
WorkerStart ==
    /\ ~running
    /\ running' = TRUE
    /\ CheckNotifications
    /\ Observe
    /\ op' = "tick"
    /\ response' = NoResponse
    /\ arg' = NoArg
    /\ UNCHANGED <<now, sessions, tables, req, toggleBefore, view, laterVars>>

\* one more iteration of "while self.running": check_notifications, then sleep.
\* start() is not guarded against a second call and a sleeping loop may wake late,
\* so the instants at which some loop runs its tick are not constrained here.
Tick ==
    /\ running
    /\ CheckNotifications
    /\ Observe
    /\ op' = "tick"
    /\ response' = NoResponse
    /\ arg' = NoArg
    /\ UNCHANGED <<now, sessions, tables, running, req, toggleBefore, view, laterVars>>

\* the clock moves on by one unit
Advance(limit) ==
    /\ now < limit
    /\ now' = now + 1
    /\ op' = "advance"
    /\ out' = {} /\ attempted' = {} /\ response' = NoResponse
    /\ arg' = NoArg
    /\ UNCHANGED <<sessions, tables, workerVars, req, resumed, toggleBefore, view, laterVars>>

\* ------------------------------------------------ settings and projects API
\* what a call of another API leaves alone
EditStep(name) ==
    /\ op' = name
    /\ out' = {} /\ attempted' = {} /\ response' = NoResponse /\ arg' = NoArg
    /\ UNCHANGED <<now, sessions, planning, workerVars, req, resumed, toggleBefore, view,
                   loops, current, delivery, raised, plan_store, store>>

\* PUT /api/settings/notification_interval_default
UpdateIntervalDefault(value) ==
    /\ setting_default' = value
    /\ EditStep("update_setting")
    /\ UNCHANGED <<project_interval, enabled>>

\* PUT /api/settings/notification_{kind}_enabled
UpdateEnabled(kind, value) ==
    /\ enabled' = [enabled EXCEPT ![kind] = value]
    /\ EditStep("update_setting")
    /\ UNCHANGED <<project_interval, setting_default>>

\* PUT /api/projects/{project_id} with notification_interval
UpdateProject(project_id, notification_interval) ==
    /\ project_interval' = [project_interval EXCEPT ![project_id] = notification_interval]
    /\ EditStep("update_project")
    /\ UNCHANGED <<setting_default, enabled>>

\* ---------------------------------------------------------- PlanningService
\* datetime.date() of an instant
Day(t) == t \div SlotsPerDay

CheckOverlapStartOnly(rows, scheduled_start, scheduled_end, exclude_id) ==
    \E r \in rows :
        /\ r.scheduled_start <= scheduled_start
        /\ r.scheduled_end > scheduled_start
        /\ Truthy(exclude_id) => r.id # exclude_id

\* check_overlap: a row with scheduled_start < new end and scheduled_end > new start,
\* other than exclude_id when that is given
CheckOverlap(rows, scheduled_start, scheduled_end, exclude_id) ==
    \E r \in rows :
        /\ r.scheduled_start < scheduled_end
        /\ r.scheduled_end > scheduled_start
        /\ Truthy(exclude_id) => r.id # exclude_id

\* validate_same_day
ValidateSameDay(scheduled_start, scheduled_end) == Day(scheduled_start) = Day(scheduled_end)

\* what a planning call leaves alone; request is the call's payload
PlanStep(name, request) ==
    /\ op' = name
    /\ arg' = request
    /\ out' = {} /\ attempted' = {}
    /\ UNCHANGED <<now, sessions, tables, workerVars, req, resumed, toggleBefore, view,
                   loops, current, delivery, raised, store, enabled>>

\* POST /api/planning/ -> PlanningService.create
CreatePlanning(scheduled_start, scheduled_end) ==
    /\ plan_store.next_id <= MaxPlanId
    /\ IF ~ValidateSameDay(scheduled_start, scheduled_end)
       THEN /\ response' = [status |-> 400, detail |-> ErrSameDay]
            /\ UNCHANGED plan_store
       ELSE IF CheckOverlap(plan_store.rows, scheduled_start, scheduled_end, NULL)
       THEN /\ response' = [status |-> 400, detail |-> ErrOverlap]
            /\ UNCHANGED plan_store
       ELSE /\ plan_store' =
                 [rows |-> plan_store.rows \cup
                             {[id |-> plan_store.next_id,
                               scheduled_start |-> scheduled_start,
                               scheduled_end |-> scheduled_end]},
                  next_id |-> plan_store.next_id + 1]
            /\ response' = [status |-> 201, detail |-> "created"]
    /\ PlanStep("create_planning",
                [id |-> NULL, scheduled_start |-> scheduled_start,
                 scheduled_end |-> scheduled_end])

\* PUT /api/planning/{id} -> PlanningService.update; NULL is a field left unset
UpdatePlanning(planning_id, scheduled_start, scheduled_end) ==
    /\ IF \A r \in plan_store.rows : r.id # planning_id
       THEN /\ response' = [status |-> 400, detail |-> ErrPlanNotFound]
            /\ UNCHANGED plan_store
       ELSE LET row == CHOOSE r \in plan_store.rows : r.id = planning_id
                new_start == IF scheduled_start = NULL THEN row.scheduled_start
                             ELSE scheduled_start
                new_end == IF scheduled_end = NULL THEN row.scheduled_end
                           ELSE scheduled_end
            IN IF ~ValidateSameDay(new_start, new_end)
               THEN /\ response' = [status |-> 400, detail |-> ErrSameDay]
                    /\ UNCHANGED plan_store
               ELSE IF CheckOverlap(plan_store.rows, new_start, new_end, planning_id)
               THEN /\ response' = [status |-> 400, detail |-> ErrOverlap]
                    /\ UNCHANGED plan_store
               ELSE /\ plan_store' =
                         [plan_store EXCEPT !.rows =
                             (@ \ {row}) \cup
                             {[id |-> planning_id, scheduled_start |-> new_start,
                               scheduled_end |-> new_end]}]
                    /\ response' = [status |-> 200, detail |-> "updated"]
    /\ PlanStep("update_planning",
                [id |-> planning_id, scheduled_start |-> scheduled_start,
                 scheduled_end |-> scheduled_end])

\* DELETE /api/planning/{id} -> PlanningService.delete
DeletePlanning(planning_id) ==
    /\ IF \A r \in plan_store.rows : r.id # planning_id
       THEN /\ response' = [status |-> 404, detail |-> ErrPlanNotFound]
            /\ UNCHANGED plan_store
       ELSE /\ plan_store' = [plan_store EXCEPT !.rows =
                                 {r \in @ : r.id # planning_id}]
            /\ response' = [status |-> 204, detail |-> "deleted"]
    /\ PlanStep("delete_planning",
                [id |-> planning_id, scheduled_start |-> NULL, scheduled_end |-> NULL])

\* ------------------------------------- NotificationWorker, statement by statement
\* The tasks created by asyncio.create_task(notification_worker.start()) share one
\* event loop: a task runs until a statement that suspends it.

SuspendsEverywhere(stmt) == TRUE

\* the statements of start() and check_notifications() at which the task yields:
\* the checks are async def without an await on I/O, only asyncio.sleep suspends
Suspends(stmt) == stmt = "sleep"

\* the task the event loop runs after task l has executed stmt
Release(l, stmt) == IF Suspends(stmt) THEN NULL ELSE l

SendRaisesOnFailure(ok) == ~ok

\* send_notification: try ... except Exception: print, return False.
\* Whatever the delivery outcome, nothing is raised to the caller.
SendRaises(ok) == FALSE

NextPcUncaught(exc) == IF exc THEN "dead" ELSE "sleep"

\* try: await self.check_notifications() / except Exception: print(...);
\* then await asyncio.sleep(self.check_interval), exception or not
NextPc(exc) == "sleep"

\* the ids of a set in the order the loop visits them
InOrder(ids) == SelectSeq([i \in 1..Cardinality(LoopPlanIds) |-> i], LAMBDA p : p \in ids)

\* entries the for loop reaches: none after an entry whose send raised
Evaluated(pa, ps, okf) == {p \in pa : \A q \in ps : q < p => ~SendRaises(okf[q])}

\* asyncio.create_task(notification_worker.start()): running = True, into the while loop
LoopStart(l) ==
    /\ loops[l].pc = "none"
    /\ current = NULL
    /\ running' = TRUE
    /\ loops' = [loops EXCEPT ![l] = [pc |-> "check", wake |-> now, stopped |-> FALSE]]
    /\ current' = Release(l, "enter")
    /\ delivery' = <<>>
    /\ op' = "loop_start"
    /\ out' = {} /\ attempted' = {} /\ response' = NoResponse /\ arg' = NoArg
    /\ UNCHANGED <<now, sessions, tables, cache, lastCall, windowTick, notified, req,
                   resumed, toggleBefore, view, raised, plan_store, store, enabled>>

\* stop(): running = False
WorkerStop ==
    /\ current = NULL
    /\ running' = FALSE
    /\ loops' = [l \in LoopIds |->
                   IF loops[l].pc = "sleep" THEN [loops[l] EXCEPT !.stopped = TRUE]
                   ELSE loops[l]]
    /\ op' = "loop_stop"
    /\ out' = {} /\ attempted' = {} /\ response' = NoResponse /\ arg' = NoArg
    /\ UNCHANGED <<now, sessions, tables, cache, lastCall, windowTick, notified, req,
                   resumed, toggleBefore, view, current, delivery, raised, plan_store,
                   store, enabled>>

\* await self._check_planning_notifications(db); fail: a query on db raises
LoopCheckPlanning(l) ==
    /\ loops[l].pc = "check"
    /\ current \in {NULL, l}
    /\ \E fail \in BOOLEAN, okf \in [DOMAIN planning -> BOOLEAN] :
         LET pa == IF fail THEN {}
                   ELSE PlanningAttempts(sessions, planning, project_interval, now)
             ps == {p \in pa : ~WasNotificationSentRecently(cache, <<"planning", p>>, now)}
             ev == Evaluated(pa, ps, okf)
             sent == ps \cap ev
             exc == IF fail THEN "db"
                    ELSE IF \E p \in sent : SendRaises(okf[p]) THEN "send" ELSE "no"
             order == InOrder(sent)
         IN /\ attempted' = {"planning"} \X ev
            /\ out' = {PlanningNotification(p, planning[p],
                                            now - planning[p].scheduled_start) : p \in sent}
            /\ delivery' = delivery \o
                   [i \in 1..Len(order) |->
                       [key |-> <<"planning", order[i]>>, ok |-> okf[order[i]]]]
            /\ cache' = MarkNotificationSent(cache,
                   {"planning"} \X {p \in sent : ~SendRaises(okf[p])}, now)
            /\ raised' = [raised EXCEPT ![l] = exc]
            /\ loops' = [loops EXCEPT ![l] =
                   IF exc = "no" THEN [@ EXCEPT !.pc = "session"]
                   ELSE [@ EXCEPT !.pc = NextPc(TRUE),
                                  !.wake = now + Units(CheckIntervalSeconds)]]
            /\ current' = Release(l, IF exc = "no" THEN "planning" ELSE "sleep")
    /\ op' = "planning_check"
    /\ response' = NoResponse /\ arg' = NoArg
    /\ UNCHANGED <<now, sessions, tables, running, lastCall, windowTick, notified, req,
                   resumed, toggleBefore, view, plan_store, store, enabled>>

\* await self._check_session_notifications(db), then the loop's sleep
LoopCheckSession(l) ==
    /\ loops[l].pc = "session"
    /\ current \in {NULL, l}
    /\ \E fail \in BOOLEAN, ok \in BOOLEAN :
         LET sa == IF fail THEN {}
                   ELSE SessionAttempts(sessions, project_interval, setting_default, now)
             sn == {i \in sa : ~WasNotificationSentRecently(cache, <<"session", i>>, now)}
             exc == IF fail THEN "db"
                    ELSE IF sn # {} /\ SendRaises(ok) THEN "send" ELSE "no"
         IN /\ attempted' = attempted \cup ({"session"} \X sa)
            /\ out' = {SessionNotification(sessions[i],
                          now - sessions[i].start_time
                              - sessions[i].planned_duration * Resolution) : i \in sn}
            /\ delivery' = delivery \o
                   (IF sn = {} THEN <<>>
                    ELSE <<[key |-> <<"session", CHOOSE i \in sn : TRUE>>, ok |-> ok]>>)
            /\ cache' = MarkNotificationSent(cache,
                   IF SendRaises(ok) THEN {} ELSE {"session"} \X sn, now)
            /\ raised' = [raised EXCEPT ![l] = exc]
            /\ loops' = [loops EXCEPT ![l] =
                   [@ EXCEPT !.pc = NextPc(exc # "no"),
                             !.wake = now + Units(CheckIntervalSeconds)]]
    /\ current' = Release(l, "sleep")
    /\ op' = "session_check"
    /\ response' = NoResponse /\ arg' = NoArg
    /\ UNCHANGED <<now, sessions, tables, running, lastCall, windowTick, notified, req,
                   resumed, toggleBefore, view, plan_store, store, enabled>>

\* asyncio.sleep returns: "while self.running" is tested again
LoopWake(l) ==
    /\ loops[l].pc = "sleep"
    /\ now >= loops[l].wake
    /\ current = NULL
    /\ IF running
       THEN /\ loops' = [loops EXCEPT ![l].pc = "check"]
            /\ current' = Release(l, "enter")
            /\ delivery' = <<>>
       ELSE /\ loops' = [loops EXCEPT ![l].pc = "exit"]
            /\ UNCHANGED <<current, delivery>>
    /\ op' = "loop_wake"
    /\ out' = {} /\ attempted' = {} /\ response' = NoResponse /\ arg' = NoArg
    /\ UNCHANGED <<now, sessions, tables, workerVars, req, resumed, toggleBefore, view,
                   raised, plan_store, store, enabled>>

\* sessions.actual_duration: GENERATED ALWAYS AS TIMESTAMPDIFF(MINUTE, start_time,
\* end_time), NULL while end_time is NULL
ActualDuration(s) ==
    IF s.end_time = NULL THEN NULL ELSE (s.end_time - s.start_time) \div Resolution

\* ------------------------------------------------- the store's actions
\* what a step of the store leaves alone
StoreStep(name) ==
    /\ op' = name
    /\ out' = {} /\ attempted' = {} /\ arg' = NoArg /\ toggleBefore' = <<>>
    /\ UNCHANGED <<now, tables, workerVars, req, view, loops, current, delivery, raised,
                   plan_store, enabled>>

\* startPolling / stopPolling after fetchActiveSession has assigned activeSession
PollingAfterFetch(activeSession, pollInterval) ==
    IF activeSession # NULL /\ ~pollInterval THEN TRUE
    ELSE IF activeSession = NULL /\ pollInterval THEN FALSE
    ELSE pollInterval

\* startSession: POST /api/sessions/, then activeSession = response.data and
\* startPolling(); a rejected start throws and leaves the store as it was
StoreStartSession(planned_duration) ==
    /\ Len(sessions) < MaxSessions
    /\ IF GetActiveSession(sessions) # NULL
       THEN /\ response' = [status |-> 400, detail |-> ErrActive]
            /\ UNCHANGED <<sessions, store>>
       ELSE /\ sessions' = Append(sessions,
                   NewSession(Len(sessions) + 1, NULL, planned_duration, NULL, now))
            /\ store' = [store EXCEPT !.activeSession = Len(sessions) + 1,
                                      !.pollInterval = TRUE,
                                      !.stopResolved = FALSE]
            /\ response' = [status |-> 201, detail |-> "created"]
    /\ resumed' = FALSE
    /\ StoreStep("store_start")

\* the setInterval callback: if activeSession, fetchActiveSession() sends
\* GET /api/sessions/active and the backend answers with the session active then
PollFetch ==
    /\ store.pollInterval
    /\ store.activeSession # NULL
    /\ store.fetch.pc = "idle"
    /\ store' = [store EXCEPT !.fetch = [pc |-> "answered",
                                         data |-> GetActiveSession(sessions)]]
    /\ response' = [status |-> 200, detail |-> "active"]
    /\ UNCHANGED <<sessions, resumed>>
    /\ StoreStep("poll_fetch")

\* the response of GET /api/sessions/active arrives: activeSession = response.data,
\* then polling is started or stopped to match
FetchResolve ==
    /\ store.fetch.pc = "answered"
    /\ store' = [store EXCEPT
           !.activeSession = store.fetch.data,
           !.pollInterval = PollingAfterFetch(store.fetch.data, store.pollInterval),
           !.fetch = NoFetch]
    /\ response' = NoResponse
    /\ UNCHANGED <<sessions, resumed>>
    /\ StoreStep("fetch_resolve")

\* stopSession(activeSession.id): POST /api/sessions/{id}/stop reaches the backend
StoreStopRequest ==
    /\ store.activeSession # NULL
    /\ store.stopping = "none"
    /\ LET id == store.activeSession
       IN IF GetById(sessions, id) = NULL
          THEN /\ response' = [status |-> 400, detail |-> ErrNotFound]
               /\ store' = [store EXCEPT !.stopping = "error"]
               /\ UNCHANGED sessions
          ELSE IF sessions[id].end_time # NULL
          THEN /\ response' = [status |-> 400, detail |-> ErrStopped]
               /\ store' = [store EXCEPT !.stopping = "error"]
               /\ UNCHANGED sessions
          ELSE /\ sessions' = [sessions EXCEPT
                      ![id] = ApplyReview([@ EXCEPT !.end_time = now], NoReview)]
               /\ response' = [status |-> 200, detail |-> "stopped"]
               /\ store' = [store EXCEPT !.stopping = "ok"]
    /\ resumed' = (resumed /\ ActiveIds(sessions') # {})
    /\ StoreStep("store_stop")

\* the response of the stop arrives: activeSession = null and stopPolling(),
\* or the error is thrown and the store keeps its session
StoreStopResolve ==
    /\ store.stopping # "none"
    /\ store' = IF store.stopping = "ok"
                THEN [store EXCEPT !.activeSession = NULL, !.pollInterval = FALSE,
                                   !.stopping = "none", !.stopResolved = TRUE]
                ELSE [store EXCEPT !.stopping = "none"]
    /\ response' = NoResponse
    /\ UNCHANGED <<sessions, resumed>>
    /\ StoreStep("stop_resolve")

\* ------------------------------------------------- the store's getters
\* Math.floor((now - start) / 1000 / 60); a is the store's activeSession or NULL
ElapsedMinutes(a, t) == IF a = NULL THEN 0 ELSE (t - sessions[a].start_time) \div Resolution

Max(a, b) == IF a >= b THEN a ELSE b

RemainingMinutes(a, t) ==
    IF a = NULL THEN 0 ELSE Max(0, sessions[a].planned_duration - ElapsedMinutes(a, t))

IsOvertimeInclusive(a, t) ==
    IF a = NULL THEN FALSE ELSE ElapsedMinutes(a, t) >= sessions[a].planned_duration

IsOvertime(a, t) ==
    IF a = NULL THEN FALSE ELSE ElapsedMinutes(a, t) > sessions[a].planned_duration

OvertimeMinutes(a, t) ==
    IF a = NULL THEN 0 ELSE Max(0, ElapsedMinutes(a, t) - sessions[a].planned_duration)

\* the banner reads the getters on the session GET /api/sessions/active returned
Render ==
    /\ LET a == GetActiveSession(sessions)
       IN view' = [elapsedMinutes |-> ElapsedMinutes(a, now),
                   remainingMinutes |-> RemainingMinutes(a, now),
                   isOvertime |-> IsOvertime(a, now),
                   overtimeMinutes |-> OvertimeMinutes(a, now)]
    /\ op' = "render"
    /\ out' = {} /\ attempted' = {} /\ response' = NoResponse
    /\ arg' = NoArg
    /\ UNCHANGED <<now, sessions, tables, workerVars, req, resumed, toggleBefore, laterVars>>

\* ------------------------------------------------------------ specifications
\* the state after construction, but for the planning table and the cache
InitCommon ==
    /\ now = 0
    /\ sessions = <<>>
    /\ project_interval \in [ProjectIds -> IntervalChoices]
    /\ setting_default \in SettingChoices
    /\ running = FALSE
    /\ req = [r \in RequestIds |-> [pc |-> "idle"]]
    /\ op = "init"
    /\ response = NoResponse
    /\ out = {}
    /\ attempted = {}
    /\ lastCall = [k \in Keys |-> NULL]
    /\ windowTick = [p \in PlanIds |-> FALSE]
    /\ notified = [p \in PlanIds |-> FALSE]
    /\ resumed = FALSE
    /\ arg = NoArg
    /\ toggleBefore = <<>>
    /\ view = NoView
    /\ loops = [l \in LoopIds |-> NoLoop]
    /\ current = NULL
    /\ delivery = <<>>
    /\ raised = [l \in LoopIds |-> "no"]
    /\ plan_store = [rows |-> {}, next_id |-> 1]
    /\ store = EmptyStore
    /\ enabled = [k \in Kinds |-> TRUE]

Init ==
    /\ InitCommon
    /\ planning \in [PlanIds -> [scheduled_start : PlanStarts, priority : Priorities,
                                 project_id : ProjectIds]]
    /\ cache = [k \in Keys |-> NULL]

\* the worker and the session API the banner offers on the active session
Next ==
    \/ Advance(MaxTime)
    \/ \E m \in StartModes, d \in PlannedChoices :
          StartSession(MaxWorkerSessions, m[1], d, m[2])
    \/ \E id \in ActiveIds(sessions) : StopSession(id, NoReview)
    \/ \E id \in ActiveIds(sessions) : AddTime(id, 1)
    \/ \E id \in ActiveIds(sessions) : ToggleNotifications(id)
    \/ WorkerStart
    \/ Tick

Spec == Init /\ [][Next]_vars

\* the tables the session API never reads, fixed
InitService ==
    /\ Init
    /\ \A p \in PlanIds : planning[p].priority = "medium"
    /\ \A p \in ProjectIds : project_interval[p] = NULL

\* the session API alone, called with any session id, one request at a time
NextService ==
    \/ Advance(MaxServiceTime)
    \/ \E m \in StartModes, d \in PlannedChoices :
          StartSession(MaxSessions, m[1], d, m[2])
    \/ \E id \in SessionIds : StopSession(id, NoReview)
    \/ \E id \in SessionIds : AddTime(id, 1)
    \/ \E id \in SessionIds : ToggleNotifications(id)

SpecService == InitService /\ [][NextService]_vars

\* start requests handled concurrently, each in its own thread of the pool
NextRace ==
    \/ Advance(MaxServiceTime)
    \/ \E r \in RequestIds, m \in StartModes, d \in PlannedChoices :
          StartCheck(r, m[1], d, m[2])
    \/ \E r \in RequestIds : StartCommit(r)
    \/ \E id \in SessionIds : StopSession(id, NoReview)

SpecRace == InitService /\ [][NextRace]_vars

\* the whole session API over one session row: notes and reviews included,
\* every call made with any session id
NextNotes ==
    \/ Advance(MaxServiceTime)
    \/ \E d \in PlannedChoices : StartSession(MaxWorkerSessions, 1, d, NULL)
    \/ \E id \in SessionIds, review_data \in Reviews : StopSession(id, review_data)
    \/ \E id \in SessionIds, note \in NoteTexts : AddNote(id, note)
    \/ \E id \in SessionIds : AddTime(id, 1)
    \/ \E id \in SessionIds : ToggleNotifications(id)

SpecNotes == InitService /\ [][NextNotes]_vars

\* start and add-time called with any integer
NextValidation ==
    \/ Advance(MaxServiceTime)
    \/ \E m \in StartModes, d \in DurationInputs :
          StartSession(MaxSessions, m[1], d, m[2])
    \/ \E id \in SessionIds : StopSession(id, NoReview)
    \/ \E id \in SessionIds, minutes \in MinuteInputs : AddTime(id, minutes)

SpecValidation == InitService /\ [][NextValidation]_vars

\* the banner over the life of a session started in the first minutes
NextBanner ==
    \/ Advance(MaxBannerMinutes * Resolution)
    \/ \E d \in BannerPlanned :
          now <= MaxServiceTime /\ StartSession(MaxWorkerSessions, 1, d, NULL)
    \/ Render

SpecBanner == InitService /\ [][NextBanner]_vars

\* every call of the session API on two sessions, stopped ones included
NextFrame ==
    \/ Advance(MaxServiceTime)
    \/ \E d \in PlannedChoices : StartSession(MaxSessions, 1, d, NULL)
    \/ \E id \in SessionIds : StopSession(id, NoReview)
    \/ \E id \in SessionIds : AddNote(id, <<"a">>)
    \/ \E id \in SessionIds : AddTime(id, 1)
    \/ \E id \in SessionIds : ToggleNotifications(id)

SpecFrame == InitService /\ [][NextFrame]_vars

\* one add-note request per request id, their reads and writes interleaved
NextNoteRace ==
    \/ Advance(MaxServiceTime)
    \/ \E d \in PlannedChoices : StartSession(MaxWorkerSessions, 1, d, NULL)
    \/ \E r \in RequestIds, id \in SessionIds : AddNoteRead(r, id, <<"a">>)
    \/ \E r \in RequestIds : AddNoteWrite(r)

SpecNoteRace == InitService /\ [][NextNoteRace]_vars

\* the frontend store against the backend, responses arriving in any order
NextStore ==
    \/ Advance(MaxServiceTime)
    \/ \E d \in PlannedChoices : StoreStartSession(d)
    \/ PollFetch
    \/ FetchResolve
    \/ StoreStopRequest
    \/ StoreStopResolve

SpecStore == InitService /\ [][NextStore]_vars

\* the worker beside the settings page and the project form
NextIntervals ==
    \/ Advance(MaxSettingsTime)
    \/ \E m \in {<<NULL, NULL>>, <<1, NULL>>}, d \in PlannedChoices :
          StartSession(MaxWorkerSessions, m[1], d, m[2])
    \/ \E v \in SettingUpdates : UpdateIntervalDefault(v)
    \/ \E p \in ProjectIds, v \in IntervalChoices : UpdateProject(p, v)
    \/ WorkerStart
    \/ Tick

SpecIntervals == InitService /\ [][NextIntervals]_vars

\* the worker beside the notification switches of the settings page
NextEnabled ==
    \/ Advance(MaxSettingsTime)
    \/ \E d \in PlannedChoices : StartSession(MaxWorkerSessions, 1, d, NULL)
    \/ \E k \in Kinds, v \in BOOLEAN : UpdateEnabled(k, v)
    \/ \E p \in ProjectIds, v \in IntervalChoices : UpdateProject(p, v)
    \/ WorkerStart
    \/ Tick

SpecEnabled == InitService /\ [][NextEnabled]_vars

\* the planning routes, one call at a time, with any times and any id
NextPlanning ==
    \/ \E a, b \in Slots : CreatePlanning(a, b)
    \/ \E id \in 1..(MaxPlanId + 1), a, b \in Slots \cup {NULL} : UpdatePlanning(id, a, b)
    \/ \E id \in 1..(MaxPlanId + 1) : DeletePlanning(id)

SpecPlanning == InitService /\ [][NextPlanning]_vars

\* two planning entries that start together, no interval configured anywhere
InitLoop ==
    /\ InitCommon
    /\ planning = [p \in LoopPlanIds |->
                     [scheduled_start |-> 1,
                      priority |-> IF p = 1 THEN "medium" ELSE "critical",
                      project_id |-> 1]]
    /\ cache = [k \in LoopKeys |-> NULL]
    /\ \A p \in ProjectIds : project_interval[p] = NULL

\* the worker's tasks on the event loop, start() and stop() called at any time,
\* and a session started by the user
NextLoop ==
    \/ Advance(MaxLoopTime)
    \/ \E d \in PlannedChoices : StartSession(MaxWorkerSessions, 1, d, NULL)
    \/ \E l \in LoopIds : LoopStart(l)
    \/ WorkerStop
    \/ \E l \in LoopIds : LoopCheckPlanning(l)
    \/ \E l \in LoopIds : LoopCheckSession(l)
    \/ \E l \in LoopIds : LoopWake(l)

\* the event loop runs every task that is ready, and time passes
FairLoop ==
    /\ WF_vars(Advance(MaxLoopTime))
    /\ \A l \in LoopIds :
          WF_vars(LoopCheckPlanning(l)) /\ WF_vars(LoopCheckSession(l)) /\ WF_vars(LoopWake(l))

SpecLoop == InitLoop /\ [][NextLoop]_vars

\* the worker's tasks alone, under the event loop's fairness
NextHeal ==
    \/ Advance(MaxLoopTime)
    \/ \E l \in LoopIds : LoopStart(l)
    \/ WorkerStop
    \/ \E l \in LoopIds : LoopCheckPlanning(l)
    \/ \E l \in LoopIds : LoopCheckSession(l)
    \/ \E l \in LoopIds : LoopWake(l)

SpecHeal == InitLoop /\ [][NextHeal]_vars /\ FairLoop

\* ================================================================ claims
KeyOf(n) == <<n.kind, n.id>>
CallsFor(o, k) == {n \in o : KeyOf(n) = k}
SessionCalls(o) == {n \in o : n.kind = "session"}
PlanningCalls(o, p) == {n \in o : n.kind = "planning" /\ n.id = p}

\* the port was called for key k less than 60 seconds before instant t
CalledWithin(lc, k, t) == lc[k] # NULL /\ t - lc[k] < Resolution

\* C1: after any sequence of start and stop calls, accepted or rejected, on any
\* session id, at most one session has end_time = NULL.
AtMostOneActive == Cardinality({i \in 1..Len(sessions) : sessions[i].end_time = NULL}) <= 1

\* C1 witness: a second session was started after the first was stopped
SecondSessionStarted ==
    /\ Len(sessions) = 2
    /\ sessions[1].end_time # NULL
    /\ sessions[2].end_time = NULL

\* C2: with the check and the insert of two start requests interleaved in any
\* order, the table never holds two sessions with end_time = NULL.
NoTwoActiveUnderRace ==
    \A i, j \in 1..Len(sessions) :
        (sessions[i].end_time = NULL /\ sessions[j].end_time = NULL) => i = j

\* C3: a start call made while a session is active answers with the conflict
\* error, creates no session and leaves the whole table as it was.
StartWhileActiveRejected ==
    [][(op' = "start" /\ \E i \in 1..Len(sessions) : sessions[i].end_time = NULL)
        => /\ response' = [status |-> 400, detail |-> ErrActive]
           /\ sessions' = sessions]_vars

\* C3 witness: a start was rejected with the conflict error while session 1 runs
StartRejected ==
    /\ op = "start"
    /\ response.detail = ErrActive
    /\ Len(sessions) >= 1 /\ sessions[1].end_time = NULL

\* C4: a dispatch attempt for a key calls the port exactly once when the port
\* was not called for that key in the 60 seconds before, and not at all when
\* it was: two attempts less than 60 s apart give one call, two attempts 60 s
\* or more apart give two.
DedupWindow ==
    [][\A k \in attempted' :
          Cardinality(CallsFor(out', k)) = IF CalledWithin(lastCall, k, now) THEN 0 ELSE 1]_vars

\* C4 witness: a tick attempted a key and the cache suppressed the call
DedupHit ==
    /\ op = "tick"
    /\ \E k \in attempted : CallsFor(out, k) = {} /\ lastCall[k] # NULL /\ lastCall[k] < now

\* the session is due at instant t: elapsed >= planned, and in the first
\* overtime minute or at a whole multiple of the interval
DueInterval(s) ==
    IF s.project_id # NULL /\ project_interval[s.project_id] # NULL
    THEN project_interval[s.project_id]
    ELSE IF setting_default # NULL THEN setting_default ELSE 10
Due(s, t) ==
    LET over == (t - s.start_time) - s.planned_duration * Resolution
    IN over >= 0 /\ (over < Resolution \/ (over \div Resolution) % DueInterval(s) = 0)

ReminderInterval(p) ==
    IF project_interval[planning[p].project_id] # NULL
    THEN project_interval[planning[p].project_id] ELSE 10

\* C6: for an entry with no session started, a tick one minute or more after
\* scheduled_start calls the port for the entry exactly when
\* floor(minutes since scheduled_start) mod interval = 0 (calls already made in
\* the last 60 seconds aside).
ReminderAtEveryBoundary ==
    [][op' = "tick" =>
        \A p \in PlanIds :
            LET since == now - planning[p].scheduled_start
            IN (/\ Len(sessions) = 0
                /\ since >= Resolution
                /\ ~CalledWithin(lastCall, <<"planning", p>>, now))
               => (PlanningCalls(out', p) # {}
                     <=> (since \div Resolution) % ReminderInterval(p) = 0)]_vars

\* C7: when no session was ever started and some tick ran at an instant t with
\* scheduled_start <= t <= scheduled_start + 5 minutes, the port was called for
\* the entry at least once.
StartNotificationNotMissed ==
    \A p \in PlanIds : (windowTick[p] /\ Len(sessions) = 0) => notified[p]

NoPlanningCallOnceLinked ==
    [][/\ \A i \in 1..Len(sessions) :
            i <= Len(sessions') /\ sessions'[i].planning_id = sessions[i].planning_id
       /\ \A p \in PlanIds :
            (\E i \in 1..Len(sessions') : sessions'[i].planning_id = p)
                => PlanningCalls(out', p) = {}]_vars

\* C9 witness: a tick in the entry's first minute, nothing sent for it before,
\* the only session stopped and linked to the entry, and the port not called
LinkedEntryTickSilent ==
    /\ op = "tick"
    /\ \E p \in PlanIds :
          /\ planning[p].scheduled_start <= now
          /\ now < planning[p].scheduled_start + Resolution
          /\ lastCall[<<"planning", p>>] = NULL
          /\ Len(sessions) = 1
          /\ sessions[1].planning_id = p
          /\ sessions[1].end_time # NULL
          /\ PlanningCalls(out, p) = {}

\* C10: the port is not called for an entry at a tick when some session, active
\* or already stopped, has start_time >= the entry's scheduled_start.
NoPlanningCallAfterAnySession ==
    \A n \in out : n.kind = "planning" =>
        ~\E i \in 1..Len(sessions) :
            sessions[i].start_time >= planning[n.id].scheduled_start

\* C11: a tick never calls the port for a session whose elapsed time is below
\* its planned duration as it stands at that tick, add-time extensions included.
NoSessionCallBeforePlanned ==
    op = "tick" =>
        \A n \in SessionCalls(out) :
            now - sessions[n.id].start_time >= sessions[n.id].planned_duration * Resolution

\* C11 witness: a session notified in overtime was extended by add-time past its
\* elapsed time, and the next tick stays silent
ExtendedSessionSilent ==
    /\ op = "tick"
    /\ \E i \in 1..Len(sessions) :
          /\ sessions[i].end_time = NULL
          /\ ~sessions[i].notification_disabled
          /\ sessions[i].planned_duration = 2
          /\ now - sessions[i].start_time >= Resolution
          /\ now - sessions[i].start_time < 2 * Resolution
          /\ lastCall[<<"session", i>>] # NULL
          /\ SessionCalls(out) = {}

\* C12: for an active session with notifications enabled and elapsed >= planned,
\* a tick calls the port for it exactly when the overtime is below one minute or
\* floor(overtime) mod interval = 0, and the port was not called for it in the
\* last 60 seconds; the call is titled "Session Complete" in the first overtime
\* minute and "Still Working" afterwards, and a "Still Working" call reports a
\* positive multiple of the interval.
SessionNotifyExactlyAtBoundaries ==
    [][op' = "tick" =>
        \A i \in 1..Len(sessions) :
            LET s == sessions[i]
                over == (now - s.start_time) - s.planned_duration * Resolution
                calls == CallsFor(out', <<"session", i>>)
            IN (s.end_time = NULL /\ ~s.notification_disabled /\ over >= 0) =>
                /\ calls # {} <=>
                      /\ over < Resolution \/ (over \div Resolution) % DueInterval(s) = 0
                      /\ ~CalledWithin(lastCall, <<"session", i>>, now)
                /\ Cardinality(calls) <= 1
                /\ \A n \in calls :
                      /\ n.title = IF over < Resolution THEN "Session Complete"
                                    ELSE "Still Working"
                      /\ n.title = "Still Working" =>
                            n.minutes > 0 /\ n.minutes % DueInterval(s) = 0]_vars

\* C12 witness: a reminder went out at the first interval boundary of the overtime
OvertimeReminderDispatched ==
    /\ op = "tick"
    /\ \E n \in out :
          /\ n.kind = "session" /\ n.title = "Still Working"
          /\ n.minutes = DueInterval(sessions[n.id])
          /\ sessions[n.id].end_time = NULL

\* C13: a tick never calls the port for a session whose end_time is set.
NoSessionCallAfterStop ==
    op = "tick" => \A n \in SessionCalls(out) : sessions[n.id].end_time = NULL

\* C13 witness: a tick at which a stopped session, never notified, would be due
\* had it still been running, and the port is not called
StoppedOvertimeTickSilent ==
    /\ op = "tick"
    /\ Len(sessions) = 1
    /\ sessions[1].end_time # NULL
    /\ ~sessions[1].notification_disabled
    /\ Due(sessions[1], now)
    /\ lastCall[<<"session", 1>>] = NULL
    /\ SessionCalls(out) = {}

\* the session a call addresses does not exist, or exists and is stopped
Missing(id) == id \notin 1..Len(sessions)
Stopped(id) == id \in 1..Len(sessions) /\ sessions[id].end_time # NULL
Running(id) == id \in 1..Len(sessions) /\ sessions[id].end_time = NULL

\* C14: a stop call for an id no session has fails with "Session not found", a
\* stop call for a session whose end_time is set fails with "Session already
\* stopped", and in both cases the whole table, end_time and review fields of
\* the stopped row included, stays as it was.
StopErrorsLeaveTableAlone ==
    [][op' = "stop" =>
        /\ Missing(arg'.id) =>
              response' = [status |-> 400, detail |-> ErrNotFound] /\ sessions' = sessions
        /\ Stopped(arg'.id) =>
              response' = [status |-> 400, detail |-> ErrStopped] /\ sessions' = sessions]_vars

\* C14 witness: a stop carrying the whole review form was refused on a stopped
\* session, whose review fields are still empty
StopOnStoppedRejected ==
    /\ op = "stop"
    /\ response.detail = ErrStopped
    /\ arg.review.given /\ arg.review.keys = ReviewKeys
    /\ sessions[arg.id].end_time # NULL
    /\ sessions[arg.id].satisfaction_score = NULL

\* C15: a stop call on an active session sets end_time to the current time,
\* gives every review field the argument holds the argument's value, and leaves
\* every other field of the row, and every other row, as it was; without a
\* review argument all of satisfaction_score, tasks_done, notes and tags stay.
StopMergesOnlyGivenFields ==
    [][(op' = "stop" /\ Running(arg'.id)) =>
        LET id == arg'.id
            keys == IF arg'.review.given THEN arg'.review.keys ELSE {}
            old == sessions[id]
            new == sessions'[id]
        IN /\ response'.status = 200
           /\ new.end_time = now
           /\ new.satisfaction_score = IF "satisfaction_score" \in keys
                                       THEN arg'.review.satisfaction_score
                                       ELSE old.satisfaction_score
           /\ new.tasks_done = IF "tasks_done" \in keys
                               THEN arg'.review.tasks_done ELSE old.tasks_done
           /\ new.notes = IF "notes" \in keys THEN arg'.review.notes ELSE old.notes
           /\ new.tags = IF "tag_ids" \in keys THEN arg'.review.tag_ids ELSE old.tags
           /\ new = [old EXCEPT !.end_time = new.end_time,
                                !.satisfaction_score = new.satisfaction_score,
                                !.tasks_done = new.tasks_done,
                                !.notes = new.notes, !.tags = new.tags]
           /\ Len(sessions') = Len(sessions)
           /\ \A j \in 1..Len(sessions) : j # id => sessions'[j] = sessions[j]]_vars

\* C15 witness: a quick stop, without review, of a session that holds notes
QuickStopKeptNotes ==
    /\ op = "stop"
    /\ response.status = 200
    /\ ~arg.review.given
    /\ sessions[arg.id].end_time = now
    /\ sessions[arg.id].notes.chars # <<>>
    /\ sessions[arg.id].satisfaction_score = NULL

\* C16: add-note, add-time and toggle-notifications calls that address a missing
\* or a stopped session fail and leave the table as it was.
InactiveSessionCallsFail ==
    [][(op' \in {"add_note", "add_time", "toggle"} /\ (Missing(arg'.id) \/ Stopped(arg'.id)))
        => (response'.status = 400 /\ sessions' = sessions)]_vars

\* C17: every session's planned_duration is a positive integer.
PlannedDurationPositive ==
    \A i \in 1..Len(sessions) : sessions[i].planned_duration > 0

\* C18: when the banner reads the getters m whole minutes (m >= 0) after the
\* start of the active session with planned duration P, it shows elapsed m,
\* remaining max(0, P - m), overtime max(0, m - P), and overtime exactly when m > P.
GettersAtWholeMinutes ==
    (op = "render" /\ \E i \in 1..Len(sessions) : sessions[i].end_time = NULL) =>
        \A i \in 1..Len(sessions) : sessions[i].end_time = NULL =>
            \A m \in 0..MaxBannerMinutes :
                now = sessions[i].start_time + m * Resolution =>
                    LET P == sessions[i].planned_duration
                    IN /\ view.elapsedMinutes = m
                       /\ view.remainingMinutes = (IF P - m > 0 THEN P - m ELSE 0)
                       /\ view.overtimeMinutes = (IF m - P > 0 THEN m - P ELSE 0)
                       /\ view.isOvertime = (m > P)

\* C18 witness: a 60-minute session read 61 minutes after its start
OvertimeAtSixtyOne ==
    /\ op = "render"
    /\ Len(sessions) = 1
    /\ sessions[1].end_time = NULL
    /\ sessions[1].planned_duration = 60
    /\ now = sessions[1].start_time + 61 * Resolution
    /\ view.isOvertime /\ view.overtimeMinutes = 1

\* C19: after two toggle calls in a row on an active session the row is what it
\* was before the first, and the first call changed nothing but
\* notification_disabled.
ToggleTwiceRestores ==
    (Len(toggleBefore) = 2 /\ toggleBefore[1].end_time = NULL) =>
        /\ sessions[toggleBefore[1].id] = toggleBefore[1]
        /\ toggleBefore[2] = [toggleBefore[1] EXCEPT
                                 !.notification_disabled = ~toggleBefore[1].notification_disabled]

\* C19 witness: the second of two toggles in a row on a running session
ToggledTwice ==
    /\ op = "toggle"
    /\ Len(toggleBefore) = 2
    /\ toggleBefore[1].end_time = NULL
    /\ toggleBefore[2].notification_disabled
    /\ ~sessions[arg.id].notification_disabled

\* C20: an add-note call on an active session makes the notes "[HH:MM] text"
\* when they were empty and the previous notes, a newline and "[HH:MM] text"
\* otherwise; the previous notes are a prefix of the new ones and nothing else
\* in the table changes.
AddNoteAppendsEntry ==
    [][(op' = "add_note" /\ Running(arg'.id)) =>
        LET id == arg'.id
            old == sessions[id].notes
            new == sessions'[id].notes
            entry == <<"[">> \o Timestamp(now) \o <<"]", " ">> \o arg'.note
        IN /\ ~new.null
           /\ new.chars = IF old.null \/ old.chars = <<>> THEN entry
                          ELSE old.chars \o <<"\n">> \o entry
           /\ SubSeq(new.chars, 1, Len(old.chars)) = old.chars
           /\ sessions' = [sessions EXCEPT ![id].notes = new]]_vars

\* C20 witness: a second note was appended to a running session
SecondNoteAppended ==
    /\ op = "add_note"
    /\ response.status = 200
    /\ sessions[arg.id].end_time = NULL
    /\ NoteCount(sessions[arg.id].notes) = 2
    /\ arg.note # <<>>

\* ------------------------------------------------------------------ C21
Ticking(l) == loops[l].pc \in {"check", "session"}
FailedPlanningDelivery ==
    \E i \in 1..Len(delivery) : delivery[i].key[1] = "planning" /\ ~delivery[i].ok

\* C21: a delivery that fails or times out does not abort the tick.  No loop's
\* check ever ends with an error raised by a send; after a planning check in which
\* a delivery failed every due planning entry was still evaluated and the loop goes
\* on to the session check; the session check that follows still evaluates the
\* active session; and no key is delivered twice within one tick.
DeliveryFailureContained ==
    /\ \A l \in LoopIds : raised[l] # "send"
    /\ \A i, j \in 1..Len(delivery) : delivery[i].key = delivery[j].key => i = j
    /\ (op = "planning_check" /\ FailedPlanningDelivery) =>
          /\ current # NULL
          /\ loops[current].pc = "session"
          /\ attempted = {"planning"} \X
                 PlanningAttempts(sessions, planning, project_interval, now)
    /\ (op = "session_check" /\ FailedPlanningDelivery
           /\ \A l \in LoopIds : raised[l] = "no") =>
          \A i \in SessionAttempts(sessions, project_interval, setting_default, now) :
              <<"session", i>> \in attempted

\* the first entry's delivery failed; the second entry and the session were
\* delivered in the same tick
FailedDeliveryThenOthersSent ==
    /\ op = "session_check"
    /\ Len(delivery) = 3
    /\ ~delivery[1].ok
    /\ delivery[2].key = <<"planning", 2>>
    /\ delivery[3].key[1] = "session"

\* ------------------------------------------------------------------ C22
\* C22: the loop is self-healing.  A check of a loop, whatever it raises, always
\* ends in the loop's sleep, and a sleep that ends within the model's horizon is
\* always followed by the next check of that loop, or by the loop's exit when the
\* worker was stopped.
NextTickRuns ==
    \A l \in LoopIds :
        /\ Ticking(l) ~> (loops[l].pc = "sleep")
        /\ (loops[l].pc = "sleep" /\ loops[l].wake <= MaxLoopTime)
              ~> (loops[l].pc = "check" \/ loops[l].pc = "exit")

\* a loop starts its next check after a check that raised
TickAfterRaisingTick == \E l \in LoopIds : loops[l].pc = "check" /\ raised[l] = "db"

\* ------------------------------------------------------------------ C23
\* C23: at no time are two loops inside a check, whatever start() and stop()
\* calls were made.
TicksDisjoint == Cardinality({l \in LoopIds : Ticking(l)}) <= 1

\* a loop that slept through stop() and the start() after it is checking again,
\* beside the loop that start() created
StoppedLoopTicksBesideNewLoop ==
    \E l, m \in LoopIds :
        /\ l # m
        /\ loops[l].stopped /\ Ticking(l)
        /\ loops[m].pc = "sleep"

\* ------------------------------------------------------------------ C24
\* the interval as stated: the project's when set, else the stored global default
StatedInterval(project_id) ==
    IF project_id # NULL /\ Truthy(project_interval[project_id])
    THEN project_interval[project_id]
    ELSE IF setting_default # NULL THEN setting_default ELSE DefaultInterval

\* C24: at every tick the planning check and the session check alike decide with
\* the project's interval when set and else with the global default as stored at
\* that tick: an entry (a session) reaches the send exactly when it is due under
\* that interval.
IntervalFromSettings ==
    op = "tick" =>
        /\ \A p \in PlanIds :
              <<"planning", p>> \in attempted <=>
                 /\ InWindow(planning[p], now)
                 /\ ~SessionFromPlan(sessions, p)
                 /\ ~AnyRecentSession(sessions, planning[p])
                 /\ PlanningShouldNotify(now - planning[p].scheduled_start,
                                         StatedInterval(planning[p].project_id))
        /\ \A i \in 1..Len(sessions) :
              <<"session", i>> \in attempted <=>
                 /\ sessions[i].end_time = NULL
                 /\ ~sessions[i].notification_disabled
                 /\ now - sessions[i].start_time >= sessions[i].planned_duration * Resolution
                 /\ SessionShouldNotify(
                        now - sessions[i].start_time
                            - sessions[i].planned_duration * Resolution,
                        StatedInterval(sessions[i].project_id))

\* ------------------------------------------------------------------ C25
\* the kind of a call to the port: planning notifications are planning_start, the
\* first session notification is session_end, the repeated one session_reminder
NotificationType(n) ==
    IF n.kind = "planning" THEN "planning_start"
    ELSE IF n.title = "Session Complete" THEN "session_end"
    ELSE "session_reminder"

\* C25: no tick sends a notification of a kind whose setting
\* notification_{kind}_enabled is false.
DisabledKindNotSent == \A n \in out : enabled[NotificationType(n)]

\* ------------------------------------------------------------------ C26
\* C26: no planning notification is dispatched for an entry at a tick whose time
\* is earlier than the entry's scheduled_start.
NoPlanningCallBeforeStart ==
    \A n \in out : n.kind = "planning" => planning[n.id].scheduled_start <= now

\* a tick ran before an entry's scheduled_start and dispatched nothing
EarlyTickSilent ==
    /\ op = "tick"
    /\ \E p \in PlanIds : now < planning[p].scheduled_start
    /\ out = {}

\* ------------------------------------------------------------------ C27
Overlap(a, b) ==
    a.scheduled_start < b.scheduled_end /\ b.scheduled_start < a.scheduled_end
NoOverlap(rows) == \A a, b \in rows : a.id # b.id => ~Overlap(a, b)

\* C27: after every planning call no two stored entries overlap; a call that is
\* rejected leaves the table as it was; a create or update whose times overlap
\* another stored entry is rejected; and a create within one day that overlaps no
\* stored entry, touching ones included, is accepted and stored.
PlanningNeverOverlaps ==
    [][LET q == arg'
           rows == plan_store.rows
       IN /\ NoOverlap(plan_store'.rows)
          /\ (op' \in {"create_planning", "update_planning", "delete_planning"}
                /\ response'.status \in {400, 404}) => plan_store' = plan_store
          /\ (op' = "create_planning" /\ \E r \in rows : Overlap(q, r))
                => response'.status = 400
          /\ (op' = "update_planning"
                /\ \E old \in rows : old.id = q.id /\
                     LET new == [id |-> q.id,
                                 scheduled_start |-> IF q.scheduled_start = NULL
                                                     THEN old.scheduled_start
                                                     ELSE q.scheduled_start,
                                 scheduled_end |-> IF q.scheduled_end = NULL
                                                   THEN old.scheduled_end
                                                   ELSE q.scheduled_end]
                     IN \E r \in rows : r.id # q.id /\ Overlap(new, r))
                => response'.status = 400
          /\ (op' = "create_planning"
                /\ Day(q.scheduled_start) = Day(q.scheduled_end)
                /\ \A r \in rows : ~Overlap(q, r))
                => /\ response'.status = 201
                   /\ \E r \in plan_store'.rows \ rows :
                         /\ r.scheduled_start = q.scheduled_start
                         /\ r.scheduled_end = q.scheduled_end]_vars

\* two entries that touch are stored and an update that would make them overlap
\* was just rejected
TouchingStoredOverlapRejected ==
    /\ op = "update_planning"
    /\ response = [status |-> 400, detail |-> ErrOverlap]
    /\ \E a, b \in plan_store.rows :
          /\ a.id # b.id
          /\ a.scheduled_start < a.scheduled_end
          /\ a.scheduled_end = b.scheduled_start
          /\ b.scheduled_start < b.scheduled_end

\* ------------------------------------------------------------------ C28
\* C28: no operation removes a session or changes its start_time, and once
\* end_time is set no operation changes or clears it, so the actual duration of a
\* stopped session stays as it was.
StartAndEndTimeFixed ==
    [][\A i \in 1..Len(sessions) :
          /\ i <= Len(sessions')
          /\ sessions'[i].start_time = sessions[i].start_time
          /\ sessions[i].end_time # NULL =>
                /\ sessions'[i].end_time = sessions[i].end_time
                /\ ActualDuration(sessions'[i]) = ActualDuration(sessions[i])]_vars

\* time was added to a stopped session while a later session is running
StoppedSessionExtended ==
    /\ Len(sessions) = 2
    /\ sessions[1].end_time # NULL /\ sessions[1].end_time > sessions[1].start_time
    /\ sessions[2].end_time = NULL
    /\ op = "add_time" /\ arg.id = 1 /\ response.status = 200

\* ------------------------------------------------------------------ C29
\* C29: with the reads and writes of concurrent add-note requests interleaved in
\* any order, a session's notes hold an entry for every request that completed
\* on it.
NoNoteLost ==
    \A id \in 1..Len(sessions) :
        NoteCount(sessions[id].notes) >=
            Cardinality({r \in RequestIds : req[r].pc = "done" /\ req[r].id = id})

\* ------------------------------------------------------------------ C30
\* C30: once stopSession has resolved successfully, and until the next successful
\* startSession, the store's activeSession is null and no polling timer runs,
\* whenever the response of a fetchActiveSession issued before the stop arrives.
StoppedStoreStaysIdle ==
    store.stopResolved => (store.activeSession = NULL /\ ~store.pollInterval)


====
